---- MODULE Spec2Model ----
(***************************************************************************)
(* Model of build.rs of blis-sys: the build script that stages, configures *)
(* and installs the vendored BLIS library, announces the link directives   *)
(* to cargo and generates the bindings with bindgen.                       *)
(*                                                                         *)
(* One behaviour is a sequence of invocations of main() on the same        *)
(* OUT_DIR.  Each invocation runs main() step by step; the subprocesses    *)
(* (cp, configure, make) and the filesystem are the environment, and their *)
(* outcome (success or non-zero exit) is chosen nondeterministically.      *)
(***************************************************************************)
EXTENDS Integers, Sequences, FiniteSets, TLC

\* ------------------------------------------------------------------------
\* Bounds
\* ------------------------------------------------------------------------
\* Number of invocations of the build script on one output directory.
MaxInvocations == 2
\* Number of TARGET_* toolchain overrides set at once in the resolver runs.
MaxOverridesSet == 2

\* ------------------------------------------------------------------------
\* Option<String>
\* ------------------------------------------------------------------------
None == << >>
Some(v) == << v >>
is_some(o) == o # << >>
is_none(o) == o = << >>
unwrap(o) == o[1]

\* ------------------------------------------------------------------------
\* The process environment (the operating system's view of a variable)
\* ------------------------------------------------------------------------
Unset == [set |-> FALSE, unicode |-> TRUE, val |-> ""]
Val(s) == [set |-> TRUE, unicode |-> TRUE, val |-> s]
NotUnicode == [set |-> TRUE, unicode |-> FALSE, val |-> ""]

FlagKeys == {"CARGO_FEATURE_PARALLEL_PTHREADS", "CARGO_FEATURE_PARALLEL_OPENMP",
             "CARGO_FEATURE_STATIC", "CARGO_FEATURE_RUNTIME_DISPATCH"}

\* The override names in the iteration order of the loop in compile().
OverrideVars == << "CC", "FC", "RANLIB", "AR", "CFLAGS", "LDFLAGS" >>

OverrideKeys == {"TARGET_CC", "TARGET_FC", "TARGET_RANLIB", "TARGET_AR",
                 "TARGET_CFLAGS", "TARGET_LDFLAGS"}

Keys == FlagKeys \cup OverrideKeys \cup
        {"BLIS_CONFNAME", "CARGO_CFG_TARGET_ARCH", "CARGO_MAKEFLAGS",
         "OUT_DIR", "TARGET"}

\* format!("TARGET_{}", var)
TargetKey(var) == "TARGET_" \o var

\* str::to_lowercase on the target triples of the model.
to_lowercase(s) ==
    CASE s = "Thumbv7-Custom-Eabi" -> "thumbv7-custom-eabi"
      [] OTHER -> s

\* Target triples and the architecture cargo derives from each.
TripleArch == [t \in {"x86_64-unknown-linux-gnu", "aarch64-apple-darwin",
                      "Thumbv7-Custom-Eabi"} |->
                 CASE t = "x86_64-unknown-linux-gnu" -> "x86_64"
                   [] t = "aarch64-apple-darwin" -> "aarch64"
                   [] t = "Thumbv7-Custom-Eabi" -> "arm"]

Triples == DOMAIN TripleArch

Archs == {"x86_64", "arm", "armv7", "aarch64", "powerpc64", "riscv64"}

OutDirPath == "/target/out"

VARIABLES
    environ,          \* the process environment of the running invocation
    libFiles,         \* files present in OUT_DIR/lib
    headers,          \* TRUE iff OUT_DIR/include/blis/blis.h is present
    installedLinkage, \* linkage of the latest successful make install
    stagedTrees,      \* staged build trees present under OUT_DIR
    upstream,         \* TRUE iff ./upstream is a readable non-empty directory
    pc,               \* position of the running invocation in main()
    spawned,          \* subprocesses launched by this invocation, in order
    exits,            \* exit success of each launched subprocess
    fsOps,            \* filesystem mutations made by this invocation, in order
    stdout,           \* lines printed by this invocation
    panicMsg,         \* the panic that aborted this invocation, or ""
    macroQuery,       \* the last will_parse_macro call and its answer
    bindings,         \* TRUE iff bindings.rs was written by this invocation
    invocations,      \* number of invocations started
    libAtStart,       \* libFiles when this invocation started
    treesAtStart      \* stagedTrees when this invocation started

vars == << environ, libFiles, headers, installedLinkage, stagedTrees, upstream,
           pc, spawned, exits, fsOps, stdout, panicMsg, macroQuery, bindings,
           invocations, libAtStart, treesAtStart >>

fsVars == << libFiles, headers, installedLinkage, stagedTrees >>
logVars == << spawned, exits, fsOps, stdout >>

\* ------------------------------------------------------------------------
\* fn env(k)                                               build.rs:21-26
\* ------------------------------------------------------------------------
\* std::env::var: Ok(value) when the variable is present and valid unicode,
\* Err(NotPresent) or Err(NotUnicode) otherwise.
std_env_var(k) ==
    LET raw == environ[k] IN
    IF ~raw.set THEN [ok |-> FALSE, v |-> "", err |-> "NotPresent"]
    ELSE IF ~raw.unicode THEN [ok |-> FALSE, v |-> "", err |-> "NotUnicode"]
    ELSE [ok |-> TRUE, v |-> raw.val, err |-> ""]

env(k) ==
    LET r == std_env_var(k) IN
    IF r.ok THEN Some(r.v) ELSE None

\* ------------------------------------------------------------------------
\* IgnoreMacros                                            build.rs:8-19
\* ------------------------------------------------------------------------
\* The vector collected into the HashSet in main().
ignored_macros_vec == << "FP_INFINITE", "FP_NAN", "FP_NORMAL", "FP_SUBNORMAL",
                         "FP_ZERO", "IPPORT_RESERVED" >>

\* Variant: the last name of the vector is not collected.
ignored_macros_short ==
    { ignored_macros_vec[i] : i \in 1..(Len(ignored_macros_vec) - 1) }

ignored_macros == { ignored_macros_vec[i] : i \in 1..Len(ignored_macros_vec) }

will_parse_macro(name) ==
    IF name \in ignored_macros THEN "Ignore" ELSE "Default"

\* Macro names the header parser may ask about.
MacroNames == {"FP_INFINITE", "FP_NAN", "FP_NORMAL", "FP_SUBNORMAL", "FP_ZERO",
               "IPPORT_RESERVED", "FP_ILOGB0", "BLIS_VERSION_STRING",
               "IPPORT_USERRESERVED"}

\* ------------------------------------------------------------------------
\* Paths of main()                                         build.rs:85-90,109
\* ------------------------------------------------------------------------
join(path, name) == path \o "/" \o name

out_dir == unwrap(env("OUT_DIR"))
lib_dir == join(out_dir, "lib")
LibName == "libblis.a"
lib == join(lib_dir, LibName)
include_dir == join(out_dir, "include")
\* Variant: the existence check looks for the shared object.
lib_exists_shared == "libblis.so" \in libFiles

\* lib.exists(): the model keeps the files of the one output directory.
lib_exists == LibName \in libFiles

target == unwrap(env("TARGET"))
BuildDirName(t) == "blis_" \o to_lowercase(t)
build_dir == join(out_dir, BuildDirName(target))

\* ------------------------------------------------------------------------
\* fn compile: the configure command line                  build.rs:28-76
\* ------------------------------------------------------------------------
Panic == "<panic>"

threading ==
    LET p == env("CARGO_FEATURE_PARALLEL_PTHREADS")
        o == env("CARGO_FEATURE_PARALLEL_OPENMP")
    IN CASE is_some(p) /\ is_none(o) -> "pthreads"
         [] is_none(p) /\ is_some(o) -> "openmp"
         [] is_none(p) /\ is_none(o) -> "no"
         [] OTHER -> Panic

linkage_args ==
    IF is_some(env("CARGO_FEATURE_STATIC"))
    THEN << "--enable-static", "--disable-shared" >>
    ELSE << "--disable-static", "--enable-shared" >>

RECURSIVE override_args_from(_)
override_args_from(i) ==
    IF i > Len(OverrideVars) THEN << >>
    ELSE LET var == OverrideVars[i]
             value == env(TargetKey(var))
         IN (IF is_some(value) THEN << var \o "=" \o unwrap(value) >> ELSE << >>)
            \o override_args_from(i + 1)

\* Variant: the overrides are appended in the reverse order.
override_args_reversed ==
    LET a == override_args_from(1) IN [i \in 1..Len(a) |-> a[Len(a) + 1 - i]]

override_args == override_args_from(1)

rust_arch == env("CARGO_CFG_TARGET_ARCH")

\* Variant: the runtime-dispatch flag is not consulted for x86_64.
arch_confname_no_dispatch(arch) ==
    CASE arch = "x86_64" -> "auto"
      [] arch \in {"arm", "armv7"} -> "auto"
      [] arch = "aarch64" -> "auto"
      [] arch = "powerpc64" -> "auto"
      [] OTHER -> "generic"

arch_confname(arch) ==
    CASE arch = "x86_64" ->
             IF is_some(env("CARGO_FEATURE_RUNTIME_DISPATCH")) THEN "x86_64" ELSE "auto"
      [] arch \in {"arm", "armv7"} -> "auto"
      [] arch = "aarch64" -> "auto"
      [] arch = "powerpc64" -> "auto"
      [] OTHER -> "generic"

blis_confname ==
    LET a == env("BLIS_CONFNAME") IN
    IF is_some(a) THEN unwrap(a) ELSE arch_confname(unwrap(rust_arch))

configure_args ==
    << "--prefix=" \o out_dir >>
    \o << "--enable-threading=" \o threading >>
    \o linkage_args
    \o override_args
    \o << blis_confname >>

MutexMsg == "Features 'parallel-pthreads' and 'parallel-openmp' are mutually exclusive."
\* (the backquotes of the source messages are written as single quotes)
UnwrapMsg == "called 'Option::unwrap()' on a 'None' value"
UpstreamMsg == "upstream directory can not be read. Consider running 'git submodule update --init'."
RunMsg == "assertion failed: command.status().unwrap().success()"
BindgenMsg == "Unable to generate bindings"
WriteMsg == "Couldn't write bindings"

\* ------------------------------------------------------------------------
\* fn run                                                  build.rs:145-148
\* ------------------------------------------------------------------------
Command(program, args, cwd, envs) ==
    [program |-> program, args |-> args, cwd |-> cwd, envs |-> envs]

\* Variant: the exit status of the command is not asserted.
run_unchecked(command, ok, next) ==
    /\ stdout' = Append(stdout, [kind |-> "running", key |-> command.program, value |-> ""])
    /\ spawned' = Append(spawned, command)
    /\ exits' = Append(exits, ok)
    /\ pc' = next
    /\ panicMsg' = panicMsg

\* run(command) with the given exit: prints the command, launches it and
\* panics unless it exits with success.
run(command, ok, next) ==
    /\ stdout' = Append(stdout, [kind |-> "running", key |-> command.program, value |-> ""])
    /\ spawned' = Append(spawned, command)
    /\ exits' = Append(exits, ok)
    /\ IF ok THEN pc' = next /\ panicMsg' = panicMsg
             ELSE pc' = "aborted" /\ panicMsg' = RunMsg

abort(msg) ==
    /\ pc' = "aborted"
    /\ panicMsg' = msg

\* What `make install` puts under OUT_DIR/lib for a tree configured with
\* the given arguments: the archive for a static build, the shared object
\* for a shared build.
installed_libs(args) ==
    LET has(a) == \E i \in 1..Len(args) : args[i] = a IN
    (IF has("--enable-static") THEN {"libblis.a"} ELSE {})
    \cup (IF has("--enable-shared") THEN {"libblis.so"} ELSE {})

\* The linkage a tree was configured for, read from the flags compile()
\* passed to configure.
linkage_of(args) ==
    IF \E i \in 1..Len(args) : args[i] = "--enable-static" THEN "static" ELSE "dynamic"

\* ------------------------------------------------------------------------
\* Environments cargo (or an operator) can run the script with
\* ------------------------------------------------------------------------
Flag(b) == IF b THEN Val("1") ELSE Unset

\* The environment cargo sets for a target triple, with nothing optional.
BaseEnv(t) ==
    [k \in Keys |->
        CASE k = "OUT_DIR" -> Val(OutDirPath)
          [] k = "TARGET" -> Val(t)
          [] k = "CARGO_CFG_TARGET_ARCH" -> Val(TripleArch[t])
          [] k = "CARGO_MAKEFLAGS" -> Val("-j --jobserver-fds=8,9")
          [] OTHER -> Unset]

\* Environments of the driver runs: every combination of the capability
\* flags, three target triples, with and without BLIS_CONFNAME; and the
\* environments in which one required variable is missing.
DriverEnvs ==
    { [BaseEnv(t) EXCEPT
          !["CARGO_FEATURE_PARALLEL_PTHREADS"] = Flag(p),
          !["CARGO_FEATURE_PARALLEL_OPENMP"] = Flag(o),
          !["CARGO_FEATURE_STATIC"] = Flag(s),
          !["CARGO_FEATURE_RUNTIME_DISPATCH"] = Flag(d),
          !["BLIS_CONFNAME"] = c] :
        p \in BOOLEAN, o \in BOOLEAN, s \in BOOLEAN, d \in BOOLEAN,
        t \in Triples, c \in {Unset, Val("haswell")} }
    \cup
    { [BaseEnv("x86_64-unknown-linux-gnu") EXCEPT
          ![k] = Unset, !["CARGO_FEATURE_STATIC"] = Flag(s)] :
        k \in {"OUT_DIR", "TARGET", "CARGO_CFG_TARGET_ARCH", "CARGO_MAKEFLAGS"},
        s \in BOOLEAN }

\* Values of the toolchain overrides in the resolver runs.
OverrideValue ==
    [k \in OverrideKeys |->
        CASE k = "TARGET_CC" -> "clang"
          [] k = "TARGET_FC" -> "gfortran"
          [] k = "TARGET_RANLIB" -> "llvm-ranlib"
          [] k = "TARGET_AR" -> "llvm-ar"
          [] k = "TARGET_CFLAGS" -> ""
          [] k = "TARGET_LDFLAGS" -> "-L/opt/lib"]

OverrideChoices == { S \in SUBSET OverrideKeys : Cardinality(S) <= MaxOverridesSet }

\* Environments of the resolver runs: the flags unset, set or set to the
\* empty string, every architecture of the mapping and one outside it, the
\* explicit configuration name, and up to MaxOverridesSet overrides.
ResolverEnvs ==
    { [k \in Keys |->
        CASE k = "CARGO_FEATURE_PARALLEL_PTHREADS" -> Flag(p)
          [] k = "CARGO_FEATURE_PARALLEL_OPENMP" -> Flag(o)
          [] k = "CARGO_FEATURE_STATIC" -> s
          [] k = "CARGO_FEATURE_RUNTIME_DISPATCH" -> Flag(d)
          [] k = "BLIS_CONFNAME" -> c
          [] k = "CARGO_CFG_TARGET_ARCH" -> Val(a)
          [] k \in OverrideKeys -> (IF k \in S THEN Val(OverrideValue[k]) ELSE Unset)
          [] OTHER -> BaseEnv("x86_64-unknown-linux-gnu")[k]] :
        p \in BOOLEAN, o \in BOOLEAN, s \in {Unset, Val(""), Val("1")},
        d \in BOOLEAN, c \in {Unset, Val("haswell"), NotUnicode},
        a \in Archs, S \in OverrideChoices }

NoQuery == [name |-> "", behavior |-> ""]

\* ------------------------------------------------------------------------
\* Initial states: an output directory that is empty, or that holds the
\* result of an earlier static or shared build; with or without a staged
\* tree left by an earlier attempt.
\* ------------------------------------------------------------------------
InitFs(linkages, trees) ==
    /\ installedLinkage \in linkages
    /\ libFiles = CASE installedLinkage = "static" -> {"libblis.a"}
                    [] installedLinkage = "dynamic" -> {"libblis.so"}
                    [] OTHER -> {}
    /\ headers = (installedLinkage # "none")
    /\ stagedTrees \in trees
    /\ upstream \in BOOLEAN

InitProcess ==
    /\ environ = BaseEnv("x86_64-unknown-linux-gnu")
    /\ pc = "init"
    /\ spawned = << >>
    /\ exits = << >>
    /\ fsOps = << >>
    /\ stdout = << >>
    /\ panicMsg = ""
    /\ macroQuery = NoQuery
    /\ bindings = FALSE
    /\ invocations = 0
    /\ libAtStart = libFiles
    /\ treesAtStart = stagedTrees

Init ==
    /\ InitFs({"none", "static", "dynamic"},
              {{}, {BuildDirName("x86_64-unknown-linux-gnu")}})
    /\ InitProcess

\* ------------------------------------------------------------------------
\* Start of an invocation: cargo runs the script with an environment.
\* Between two invocations the operator may have fetched ./upstream.
\* ------------------------------------------------------------------------
Begin(envs, cap) ==
    /\ pc \in {"init", "done", "aborted"}
    /\ invocations < cap
    /\ \E e \in envs : environ' = e
    /\ \E u \in BOOLEAN : upstream' = (upstream \/ u)
    /\ invocations' = invocations + 1
    /\ pc' = "main"
    /\ spawned' = << >>
    /\ exits' = << >>
    /\ fsOps' = << >>
    /\ stdout' = << >>
    /\ panicMsg' = ""
    /\ macroQuery' = NoQuery
    /\ bindings' = FALSE
    /\ libAtStart' = libFiles
    /\ treesAtStart' = stagedTrees
    /\ UNCHANGED fsVars

\* ------------------------------------------------------------------------
\* fn main                                                 build.rs:84-143
\* ------------------------------------------------------------------------
\* build.rs:85-88: OUT_DIR is unwrapped, then the artifact is looked for.
CheckArtifact ==
    /\ pc = "main"
    /\ IF is_none(env("OUT_DIR")) THEN abort(UnwrapMsg)
       ELSE /\ pc' = IF lib_exists THEN "emit" ELSE "stage"
            /\ panicMsg' = panicMsg
    /\ UNCHANGED << environ, fsVars, upstream, logVars, macroQuery, bindings,
                    invocations, libAtStart, treesAtStart >>

\* build.rs:89-93: TARGET is unwrapped and a stale staged tree is removed.
\* remove_dir_all may fail, and the unwrap then panics.
RemoveStale ==
    /\ pc = "stage"
    /\ IF is_none(env("TARGET"))
       THEN abort(UnwrapMsg) /\ UNCHANGED << stagedTrees, fsOps >>
       ELSE IF BuildDirName(target) \in stagedTrees
       THEN \E ok \in BOOLEAN :
              IF ok THEN /\ stagedTrees' = stagedTrees \ {BuildDirName(target)}
                         /\ fsOps' = Append(fsOps, [op |-> "remove_dir_all", path |-> build_dir])
                         /\ pc' = "verify"
                         /\ panicMsg' = panicMsg
                    ELSE abort(UnwrapMsg) /\ UNCHANGED << stagedTrees, fsOps >>
       ELSE /\ pc' = "verify"
            /\ panicMsg' = panicMsg
            /\ UNCHANGED << stagedTrees, fsOps >>
    /\ UNCHANGED << environ, libFiles, headers, installedLinkage, upstream,
                    spawned, exits, stdout, macroQuery, bindings, invocations,
                    libAtStart, treesAtStart >>

\* build.rs:94-101: ./upstream must be a readable, non-empty directory.
VerifyUpstream ==
    /\ pc = "verify"
    /\ IF upstream THEN pc' = "cp" /\ panicMsg' = panicMsg
                   ELSE abort(UpstreamMsg)
    /\ UNCHANGED << environ, fsVars, upstream, logVars, macroQuery, bindings,
                    invocations, libAtStart, treesAtStart >>

\* build.rs:102: cp -R upstream <build_dir>.  A failing cp may have created
\* part of the tree.
StageCopy ==
    /\ pc = "cp"
    /\ \E ok \in BOOLEAN, created \in BOOLEAN :
         /\ ok => created
         /\ run(Command("cp", << "-R", "upstream", build_dir >>, ".", << >>), ok, "compile")
         /\ IF created
            THEN /\ stagedTrees' = stagedTrees \cup {BuildDirName(target)}
                 /\ fsOps' = Append(fsOps, [op |-> "create", path |-> build_dir])
            ELSE UNCHANGED << stagedTrees, fsOps >>
    /\ UNCHANGED << environ, libFiles, headers, installedLinkage, upstream,
                    macroQuery, bindings, invocations, libAtStart, treesAtStart >>

\* build.rs:28-76: compile() assembles the configure command line and runs it.
CompileConfigure ==
    /\ pc = "compile"
    /\ IF threading = Panic
       THEN abort(MutexMsg) /\ UNCHANGED << spawned, exits, stdout >>
       ELSE IF is_none(rust_arch)
       THEN abort(UnwrapMsg) /\ UNCHANGED << spawned, exits, stdout >>
       ELSE \E ok \in BOOLEAN :
              run(Command(join(build_dir, "configure"), configure_args, build_dir, << >>),
                  ok, "make")
    /\ UNCHANGED << environ, fsVars, upstream, fsOps, macroQuery, bindings,
                    invocations, libAtStart, treesAtStart >>

\* build.rs:77-81: make install in the staged tree.  On success the library
\* the tree was configured for and the headers are under OUT_DIR.
CompileMake ==
    /\ pc = "make"
    /\ IF is_none(env("CARGO_MAKEFLAGS"))
       THEN /\ abort(UnwrapMsg)
            /\ UNCHANGED << spawned, exits, stdout, libFiles, headers, installedLinkage >>
       ELSE \E ok \in BOOLEAN :
              /\ run(Command("make", << "install" >>, build_dir,
                             << << "MAKEFLAGS", unwrap(env("CARGO_MAKEFLAGS")) >> >>),
                     ok, "emit")
              /\ IF ok
                 THEN /\ libFiles' = libFiles \cup installed_libs(spawned[Len(spawned)].args)
                      /\ headers' = TRUE
                      /\ installedLinkage' = linkage_of(spawned[Len(spawned)].args)
                 ELSE UNCHANGED << libFiles, headers, installedLinkage >>
    /\ UNCHANGED << environ, stagedTrees, upstream, fsOps, macroQuery, bindings,
                    invocations, libAtStart, treesAtStart >>

\* Variant: the kind is taken from the installed file, not from the flag.
kind_of_installed == IF "libblis.a" \in libFiles THEN "static" ELSE "dylib"

kind == IF is_some(env("CARGO_FEATURE_STATIC")) THEN "static" ELSE "dylib"

Directive(key, value) == [kind |-> "cargo", key |-> key, value |-> value]

\* build.rs:105-118: the directives printed for cargo.
EmitDirectives ==
    /\ pc = "emit"
    /\ stdout' = stdout \o
          << Directive("rustc-link-search", "native=" \o lib_dir),
             Directive("include", include_dir),
             Directive("rustc-link-lib", kind \o "=blis"),
             Directive("rerun-if-changed", "build.rs") >>
    /\ pc' = "bindgen"
    /\ UNCHANGED << environ, fsVars, upstream, spawned, exits, fsOps, panicMsg,
                    macroQuery, bindings, invocations, libAtStart, treesAtStart >>

\* build.rs:11-18: while it parses blis.h, bindgen asks the callback about
\* each macro it meets.
WillParseMacro ==
    /\ pc = "bindgen"
    /\ headers
    /\ \E name \in MacroNames :
         macroQuery' = [name |-> name, behavior |-> will_parse_macro(name)]
    /\ UNCHANGED << environ, fsVars, upstream, pc, logVars, panicMsg, bindings,
                    invocations, libAtStart, treesAtStart >>

\* build.rs:133-142: generate() and write_to_file().  Parsing fails when the
\* header is missing and may fail otherwise; writing may fail.
GenerateBindings ==
    /\ pc = "bindgen"
    /\ \E parsed \in BOOLEAN, written \in BOOLEAN :
         /\ parsed => headers
         /\ IF ~parsed THEN abort(BindgenMsg) /\ bindings' = bindings
            ELSE IF ~written THEN abort(WriteMsg) /\ bindings' = bindings
            ELSE pc' = "done" /\ panicMsg' = panicMsg /\ bindings' = TRUE
    /\ UNCHANGED << environ, fsVars, upstream, logVars, macroQuery,
                    invocations, libAtStart, treesAtStart >>

Steps ==
    \/ CheckArtifact
    \/ RemoveStale
    \/ VerifyUpstream
    \/ StageCopy
    \/ CompileConfigure
    \/ CompileMake
    \/ EmitDirectives
    \/ WillParseMacro
    \/ GenerateBindings

Next ==
    \/ Begin(DriverEnvs, MaxInvocations)
    \/ Steps

Spec == Init /\ [][Next]_vars

\* The resolver runs: one invocation on an output directory without the
\* artifact or with it, over the wide set of environments.
InitResolver ==
    /\ InitFs({"none", "static"}, {{}})
    /\ InitProcess

NextResolver ==
    \/ Begin(ResolverEnvs, 1)
    \/ Steps

SpecResolver == InitResolver /\ [][NextResolver]_vars

\* ------------------------------------------------------------------------
\* Observations used by the properties
\* ------------------------------------------------------------------------
Running == pc # "init"

IsSet(k) == environ[k].set
BothThreadingFlags ==
    IsSet("CARGO_FEATURE_PARALLEL_PTHREADS") /\ IsSet("CARGO_FEATURE_PARALLEL_OPENMP")
StaticFlag == IsSet("CARGO_FEATURE_STATIC")

ArtifactAtStart == "libblis.a" \in libAtStart

ProgramName(c) ==
    IF c.program \in {"cp", "make"} THEN c.program
    ELSE IF c.args # << >> /\ c.args[1] = "--prefix=" \o OutDirPath THEN "configure"
    ELSE "other"

Programs == [i \in 1..Len(spawned) |-> ProgramName(spawned[i])]

IsPrefix(s, t) == Len(s) <= Len(t) /\ \A i \in 1..Len(s) : s[i] = t[i]

Directives(key) ==
    SelectSeq(stdout, LAMBDA l : l.kind = "cargo" /\ l.key = key)

NoDirective == \A i \in 1..Len(stdout) : stdout[i].kind # "cargo"

ConfigureLaunched == Len(spawned) >= 2
ConfigureArgs == spawned[2].args

\* C1: whenever both threading flags are set, the invocation aborts with
\* the configuration-conflict error, and it has then launched no
\* subprocess and made no filesystem mutation: so no state of such an
\* invocation has a subprocess or a mutation, none is past the build, and
\* an abort is the configuration conflict.
C1_ConflictAbortsBeforeSideEffects ==
    (Running /\ BothThreadingFlags) =>
        /\ spawned = << >>
        /\ fsOps = << >>
        /\ pc \notin {"emit", "bindgen", "done"}
        /\ (pc = "aborted" => panicMsg = MutexMsg)

\* C2: an invocation that starts with the artifact present launches no
\* subprocess and leaves the staged trees (and the installed files) as
\* they were.
C2_NoRebuild ==
    (Running /\ ArtifactAtStart) =>
        /\ spawned = << >>
        /\ fsOps = << >>
        /\ stagedTrees = treesAtStart
        /\ libFiles = libAtStart

C2_Witness ==
    /\ pc = "done"
    /\ ArtifactAtStart
    /\ stagedTrees # {}
    /\ invocations = 2
    /\ IsSet("CARGO_FEATURE_PARALLEL_OPENMP")

\* C3: an invocation that starts without the artifact and whose build steps
\* all succeed leaves the file the existence check tests present, for both
\* linkage modes.
C3_BuildThenPresent ==
    (pc \in {"emit", "bindgen", "done"} /\ ~ArtifactAtStart) => lib_exists

\* C4: the last configure argument is the explicit override when one is
\* supplied, and otherwise follows the architecture table: x86_64 gives
\* "x86_64" with the runtime-dispatch flag and "auto" without, arm, armv7,
\* aarch64 and powerpc64 give "auto", anything else gives "generic".
C4_ExpectedToken ==
    LET override == environ["BLIS_CONFNAME"]
        arch == environ["CARGO_CFG_TARGET_ARCH"].val
    IN IF override.set /\ override.unicode THEN override.val
       ELSE IF arch = "x86_64"
            THEN (IF IsSet("CARGO_FEATURE_RUNTIME_DISPATCH") THEN "x86_64" ELSE "auto")
       ELSE IF arch \in {"arm", "armv7", "aarch64", "powerpc64"} THEN "auto"
       ELSE "generic"

C4_ConfnameToken ==
    ConfigureLaunched =>
        ConfigureArgs[Len(ConfigureArgs)] = C4_ExpectedToken

C4_Witness ==
    /\ ConfigureLaunched
    /\ environ["CARGO_CFG_TARGET_ARCH"].val = "x86_64"
    /\ IsSet("CARGO_FEATURE_RUNTIME_DISPATCH")
    /\ ~IsSet("BLIS_CONFNAME")
    /\ ConfigureArgs[Len(ConfigureArgs)] = "x86_64"

\* C5: the configure arguments are exactly: the prefix, one threading
\* argument, one linkage pair chosen by the static flag, NAME=value for
\* the overrides that are set in the order CC, FC, RANLIB, AR, CFLAGS,
\* LDFLAGS, and the configuration name last.
C5_ExpectedThreading ==
    IF IsSet("CARGO_FEATURE_PARALLEL_PTHREADS") THEN "pthreads"
    ELSE IF IsSet("CARGO_FEATURE_PARALLEL_OPENMP") THEN "openmp"
    ELSE "no"

C5_ExpectedOverrides ==
    LET names == SelectSeq(<< "CC", "FC", "RANLIB", "AR", "CFLAGS", "LDFLAGS" >>,
                           LAMBDA v : IsSet("TARGET_" \o v))
    IN [i \in 1..Len(names) |-> names[i] \o "=" \o environ["TARGET_" \o names[i]].val]

C5_ConfigureArgsShape ==
    ConfigureLaunched =>
        /\ ~BothThreadingFlags
        /\ ConfigureArgs =
              << "--prefix=/target/out",
                 "--enable-threading=" \o C5_ExpectedThreading >>
              \o (IF StaticFlag THEN << "--enable-static", "--disable-shared" >>
                                ELSE << "--disable-static", "--enable-shared" >>)
              \o C5_ExpectedOverrides
              \o << C4_ExpectedToken >>

C5_Witness ==
    /\ ConfigureLaunched
    /\ IsSet("CARGO_FEATURE_PARALLEL_OPENMP")
    /\ StaticFlag
    /\ IsSet("TARGET_AR")
    /\ IsSet("TARGET_CC")
    /\ Len(ConfigureArgs) = 7

\* C6: the build is a fail-stop pipeline: cp, configure, make are launched
\* in this order, each at most once and only after the earlier ones
\* succeeded; cp is launched only with the vendored source present and the
\* stale tree removed first; a failed step or a missing source aborts with
\* nothing launched after it, no directive printed and no bindings written.
C6_FailStopPipeline ==
    /\ IsPrefix(Programs, << "cp", "configure", "make" >>)
    /\ \A i \in 1..Len(exits) : i < Len(exits) => exits[i]
    /\ Len(exits) = Len(spawned)
    /\ (Len(exits) > 0 /\ ~exits[Len(exits)]) => (pc = "aborted" /\ panicMsg = RunMsg)
    /\ Len(spawned) > 0 =>
          /\ upstream
          /\ ~ArtifactAtStart
          /\ BuildDirName(environ["TARGET"].val) \in treesAtStart =>
                (fsOps # << >> /\ fsOps[1].op = "remove_dir_all")
    /\ \A i \in 1..Len(fsOps) : fsOps[i].op = "remove_dir_all" => i = 1
    /\ (pc = "aborted" /\ panicMsg \in {UpstreamMsg, RunMsg}) =>
          (NoDirective /\ ~bindings)
    /\ (pc = "aborted" /\ panicMsg = UpstreamMsg) => spawned = << >>
    /\ (~NoDirective /\ ~ArtifactAtStart) =>
          (Len(spawned) = 3 /\ \A i \in 1..3 : exits[i])

C6_Witness ==
    /\ pc = "aborted"
    /\ panicMsg = RunMsg
    /\ Programs = << "cp", "configure" >>
    /\ exits = << TRUE, FALSE >>
    /\ BuildDirName(environ["TARGET"].val) \in treesAtStart
    /\ Len(fsOps) = 2

\* C7: an invocation that completes has printed the library search path,
\* the include path and exactly one link-kind directive, whose kind is
\* static if and only if the static flag is set, whether it built or not.
C7_DirectivesEmitted ==
    pc = "done" =>
        /\ Directives("rustc-link-search") =
              << Directive("rustc-link-search", "native=/target/out/lib") >>
        /\ Directives("include") = << Directive("include", "/target/out/include") >>
        /\ Directives("rustc-link-lib") =
              << Directive("rustc-link-lib",
                           IF StaticFlag THEN "static=blis" ELSE "dylib=blis") >>

C7_Witness ==
    /\ pc = "done"
    /\ spawned = << >>
    /\ StaticFlag
    /\ invocations = 2

\* C8: the lookup returns a value only for a variable that is set and
\* non-empty, so a variable set to the empty string reads as unset, and a
\* static flag set to the empty string configures the shared build.
C8_EmptyReadsAsUnset ==
    Running =>
        /\ \A k \in Keys :
              /\ environ[k].val = "" => env(k) = None
              /\ is_some(env(k)) => (environ[k].set /\ environ[k].val # "")
        /\ (ConfigureLaunched /\ environ["CARGO_FEATURE_STATIC"].val = "") =>
              ConfigureArgs[3] = "--disable-static"

\* C9: the callback answers Ignore exactly for FP_INFINITE, FP_NAN,
\* FP_NORMAL, FP_SUBNORMAL, FP_ZERO and IPPORT_RESERVED, and Default for
\* every other macro name, in every invocation.
C9_MacroExclusion ==
    macroQuery # NoQuery =>
        /\ macroQuery.behavior \in {"Ignore", "Default"}
        /\ macroQuery.behavior = "Ignore" <=>
              macroQuery.name \in {"FP_INFINITE", "FP_NAN", "FP_NORMAL",
                                   "FP_SUBNORMAL", "FP_ZERO", "IPPORT_RESERVED"}

C9_Witness ==
    /\ macroQuery = [name |-> "IPPORT_RESERVED", behavior |-> "Ignore"]
    /\ invocations = 2

\* C10: whenever the link-kind directive is printed, the announced kind is
\* the linkage the artifact installed in the output directory was
\* configured with.
C10_KindMatchesInstalled ==
    Directives("rustc-link-lib") # << >> =>
        \A i \in 1..Len(Directives("rustc-link-lib")) :
            Directives("rustc-link-lib")[i].value =
                (IF installedLinkage = "static" THEN "static=blis" ELSE "dylib=blis")

====
